---- MODULE Spec2Model ----
(***************************************************************************)
(* Model of network-scanner/scanner.py: the address validators, the three  *)
(* text parsers, the strategy chain of scan_network(), its normalize and   *)
(* dedup pass, send_to_api() and the periodic loop of main().              *)
(*                                                                         *)
(* Text is modelled as it is in the program: a string is a sequence of     *)
(* one-character strings, a line of tool output is the sequence of its     *)
(* whitespace-separated tokens, and a tool's stdout is a sequence of       *)
(* lines.                                                                  *)
(***************************************************************************)
EXTENDS Integers, Sequences, FiniteSets, TLC

VARIABLES
    pc,          \* control location of main() / scan_network()
    os,          \* get_os_type(): "linux" or "macos"
    root,        \* is_root()
    cycle,       \* number of the current scan cycle (the clock of last_seen)
    devices,     \* scan_network's local `devices` (the raw list)
    attempted,   \* strategies attempted in this call: <<[name, nonempty]>>
    host,        \* ping_sweep's loop variable
    active_ips,  \* ping_sweep's `active_ips`
    result,      \* the list scan_network() returned (main's `devices`)
    calls,       \* the external invocations made in this cycle: {[tool, bounded]}
    posted,      \* the POSTs made in this cycle: <<[cycle, payload]>>
    outcome,     \* how the last delivery ended
    pin,         \* input of the pure function under test
    pout,        \* its outputs
    pstage       \* which pure function has been applied

vars == <<pc, os, root, cycle, devices, attempted, host, active_ips, result,
          calls, posted, outcome, pin, pout, pstage>>

sysvars == <<pc, os, root, cycle, devices, attempted, host, active_ips, result,
             calls, posted, outcome>>

purevars == <<pin, pout, pstage>>

(***************************************************************************)
(* Bounds of the model.                                                    *)
(***************************************************************************)
\* lines of tool output fed to a parser, and records of a raw device list
MaxLines == 3
\* ping_sweep probes hosts 1..LastHost (range(1, 255) in the program)
LastHost == 2
\* scan cycles of the main loop that are explored
MaxCycles == 2
\* groups of the MAC-shaped strings given to normalize_mac
MaxGroups == 7
\* records of the raw device lists given to the normalize and dedup pass
MaxRaw == 3

(***************************************************************************)
(* Characters and strings.                                                 *)
(***************************************************************************)
Digits == {"0", "1", "2", "3", "4", "5", "6", "7", "8", "9"}

UpperCase == <<"A", "B", "C", "D", "E", "F", "G", "H", "I", "J", "K", "L", "M",
               "N", "O", "P", "Q", "R", "S", "T", "U", "V", "W", "X", "Y", "Z">>

LowerCase == <<"a", "b", "c", "d", "e", "f", "g", "h", "i", "j", "k", "l", "m",
               "n", "o", "p", "q", "r", "s", "t", "u", "v", "w", "x", "y", "z">>

\* [0-9a-fA-F]
IsHex(c) == c \in Digits \cup {"a", "b", "c", "d", "e", "f",
                               "A", "B", "C", "D", "E", "F"}

\* str.lower() on one character
LowerChar(c) ==
    IF \E i \in 1..26 : UpperCase[i] = c
    THEN LowerCase[CHOOSE i \in 1..26 : UpperCase[i] = c]
    ELSE c

\* str.lower()
Lower(s) == [i \in 1..Len(s) |-> LowerChar(s[i])]

\* s[a:b] of Python, 0-based and clipped, as a slice of a 1-based sequence
Slice(s, a, b) ==
    LET hi == IF b > Len(s) THEN Len(s) ELSE b
    IN  IF a >= hi THEN <<>> ELSE [i \in 1..(hi - a) |-> s[a + i]]

RECURSIVE JoinWith(_, _)
\* sep.join(parts)
JoinWith(parts, sep) ==
    IF parts = <<>> THEN <<>>
    ELSE IF Len(parts) = 1 THEN parts[1]
    ELSE parts[1] \o sep \o JoinWith(Tail(parts), sep)

RECURSIVE SplitOn(_, _)
\* s.split(c): always at least one (possibly empty) part
SplitOn(s, c) ==
    IF \A i \in 1..Len(s) : s[i] # c THEN <<s>>
    ELSE LET k == CHOOSE i \in 1..Len(s) :
                     s[i] = c /\ \A j \in 1..(i - 1) : s[j] # c
         IN  <<SubSeq(s, 1, k - 1)>> \o SplitOn(SubSeq(s, k + 1, Len(s)), c)

\* word in s (substring test)
Contains(s, word) ==
    \E k \in 0..(Len(s) - Len(word)) : Slice(s, k, k + Len(word)) = word

(***************************************************************************)
(* Address validator.                                                      *)
(***************************************************************************)
DigitVal(c) == CHOOSE n \in 0..9 : <<"0", "1", "2", "3", "4", "5", "6", "7", "8", "9">>[n + 1] = c

RECURSIVE DecVal(_)
DecVal(ds) ==
    IF ds = <<>> THEN 0
    ELSE 10 * DecVal(SubSeq(ds, 1, Len(ds) - 1)) + DigitVal(ds[Len(ds)])

\* int(part): an optional sign and decimal digits; anything else raises
\* ValueError (ok = FALSE)
ParseInt(part) ==
    LET signed == part # <<>> /\ part[1] \in {"+", "-"}
        ds     == IF signed THEN Tail(part) ELSE part
    IN  IF ds # <<>> /\ \A i \in 1..Len(ds) : ds[i] \in Digits
        THEN [ok |-> TRUE,
              val |-> IF signed /\ part[1] = "-" THEN 0 - DecVal(ds) ELSE DecVal(ds)]
        ELSE [ok |-> FALSE, val |-> 0]

is_valid_ip(ip) ==
    LET parts == SplitOn(ip, ".")
    IN  /\ Len(parts) = 4
        /\ \A i \in 1..Len(parts) :
               /\ ParseInt(parts[i]).ok
               /\ 0 <= ParseInt(parts[i]).val
               /\ ParseInt(parts[i]).val <= 255

RECURSIVE MacGroups(_, _)
\* does s match ([0-9a-fA-F]{1,2}[:-]){n-1}[0-9a-fA-F]{1,2}$ from its start
MacGroups(s, n) ==
    LET h == IF Len(s) >= 2 /\ IsHex(s[1]) /\ IsHex(s[2]) THEN 2
             ELSE IF Len(s) >= 1 /\ IsHex(s[1]) THEN 1 ELSE 0
    IN  IF h = 0 THEN FALSE
        ELSE IF n = 1 THEN Len(s) = h
        ELSE /\ Len(s) > h
             /\ s[h + 1] \in {":", "-"}
             /\ MacGroups(SubSeq(s, h + 2, Len(s)), n - 1)

is_valid_mac(mac) == MacGroups(mac, 6)

normalize_mac(mac) ==
    LET clean_mac == SelectSeq(Lower(mac), IsHex)
        n         == (Len(clean_mac) + 1) \div 2
        chunks    == [k \in 1..n |-> Slice(clean_mac, 2 * (k - 1), 2 * k)]
    IN  JoinWith(Slice(chunks, 0, 6), <<":">>)

(***************************************************************************)
(* Regular expressions of the parsers, on one token.                       *)
(***************************************************************************)
RECURSIVE DigitRunEnd(_, _)
\* \d+ at position p of s: the index of the last digit of the run, 0 if none
DigitRunEnd(s, p) ==
    IF p > Len(s) \/ s[p] \notin Digits THEN 0
    ELSE IF p < Len(s) /\ s[p + 1] \in Digits THEN DigitRunEnd(s, p + 1)
    ELSE p

\* \d+\. at position p: the index after the dot, 0 if no match
OctetDot(s, p) ==
    LET e == DigitRunEnd(s, p)
    IN  IF e # 0 /\ e < Len(s) /\ s[e + 1] = "." THEN e + 2 ELSE 0

\* \d+\.\d+\.\d+\.\d+ at position p (greedy): the index of its last
\* character, 0 if no match
MatchIpAt(s, p) ==
    LET p2 == OctetDot(s, p)
        p3 == IF p2 = 0 THEN 0 ELSE OctetDot(s, p2)
        p4 == IF p3 = 0 THEN 0 ELSE OctetDot(s, p3)
    IN  IF p4 = 0 THEN 0 ELSE DigitRunEnd(s, p4)

\* re.search of (\d+\.\d+\.\d+\.\d+) in one token: the leftmost match
HasIpMatch(s) == \E p \in 1..Len(s) : MatchIpAt(s, p) # 0

FirstIpMatch(s) ==
    LET p == CHOOSE q \in 1..Len(s) :
                 MatchIpAt(s, q) # 0 /\ \A r \in 1..(q - 1) : MatchIpAt(s, r) = 0
    IN  SubSeq(s, p, MatchIpAt(s, p))

\* (\d+\.\d+\.\d+\.\d+)\s : a match that ends the token, leftmost start
HasIpSuffix(s) == \E p \in 1..Len(s) : MatchIpAt(s, p) = Len(s)

IpSuffix(s) ==
    LET p == CHOOSE q \in 1..Len(s) :
                 MatchIpAt(s, q) = Len(s)
                 /\ \A r \in 1..(q - 1) : MatchIpAt(s, r) # Len(s)
    IN  SubSeq(s, p, Len(s))

\* the index of the last "(" of s, 0 if none
LastParen(s) ==
    IF \A i \in 1..Len(s) : s[i] # "(" THEN 0
    ELSE CHOOSE i \in 1..Len(s) : s[i] = "(" /\ \A j \in (i + 1)..Len(s) : s[j] # "("

\* \((\d+\.\d+\.\d+\.\d+)\)\s : "(" ip ")" ending the token
HasParenIp(s) ==
    /\ LastParen(s) # 0
    /\ s[Len(s)] = ")"
    /\ MatchIpAt(s, LastParen(s) + 1) = Len(s) - 1

ParenIp(s) == SubSeq(s, LastParen(s) + 1, Len(s) - 1)

RECURSIVE HexColonPrefix(_)
\* ([0-9a-fA-F:]+) at the start of s (greedy); <<>> if it does not match
HexColonPrefix(s) ==
    IF s # <<>> /\ (IsHex(s[1]) \/ s[1] = ":")
    THEN <<s[1]>> \o HexColonPrefix(Tail(s))
    ELSE <<>>

(***************************************************************************)
(* Words of the tools' output, and the Device record.                      *)
(***************************************************************************)
Unknown == <<"U", "n", "k", "n", "o", "w", "n">>

W_at == <<"a", "t">>

W_lladdr == <<"l", "l", "a", "d", "d", "r">>

W_REACHABLE == <<"R", "E", "A", "C", "H", "A", "B", "L", "E">>

W_STALE == <<"S", "T", "A", "L", "E">>

W_ether == <<"e", "t", "h", "e", "r">>

W_eth0 == <<"e", "t", "h", "0">>

W_dev == <<"d", "e", "v">>

W_on == <<"o", "n">>

W_host == <<"h", "o", "s", "t">>

\* the dict built by every strategy; last_seen is the clock reading
Device(ip, mac, hostname, now) ==
    [ip |-> ip, mac |-> mac, hostname |-> hostname, last_seen |-> now]

\* socket.getfqdn(ip) and the test hostname != ip, inside try/except:
\* dns is what the resolver did for this address
DnsOutcomes == {"name", "same", "raise"}

ResolveHostname(dns) == IF dns = "name" THEN W_host ELSE Unknown

(***************************************************************************)
(* scan_with_arp_scan: the parser of the arp-scan table.                   *)
(***************************************************************************)
\* one iteration of the loop over lines[start_idx:end_idx]: the records it
\* appends
arp_scan_line(line, now) ==
    IF line = <<>> THEN <<>>
    ELSE IF Len(line) < 2 THEN <<>>
    ELSE IF ~is_valid_ip(line[1]) \/ ~is_valid_mac(line[2]) THEN <<>>
    ELSE <<Device(line[1], line[2],
                  IF Len(line) > 2 THEN JoinWith(SubSeq(line, 3, Len(line)), <<" ">>)
                  ELSE Unknown,
                  now)>>

RECURSIVE arp_scan_loop_abort(_, _, _)
\* the mutant of arp_scan_loop: a line that fails validation ends the parse
\* with an empty list instead of being skipped
arp_scan_loop_abort(lines, devs, now) ==
    IF lines = <<>> THEN devs
    ELSE IF Head(lines) # <<>> /\ arp_scan_line(Head(lines), now) = <<>> THEN <<>>
    ELSE arp_scan_loop_abort(Tail(lines), devs \o arp_scan_line(Head(lines), now), now)

RECURSIVE arp_scan_loop(_, _, _)
\* for line in lines[start_idx:end_idx]
arp_scan_loop(lines, devs, now) ==
    IF lines = <<>> THEN devs
    ELSE arp_scan_loop(Tail(lines), devs \o arp_scan_line(Head(lines), now), now)

\* lines = result.stdout.split('\n'); header and footer are cut by position
arp_scan_parse(lines, now) ==
    LET start_idx == 2
        end_idx   == IF Len(lines) > 5 THEN Len(lines) - 3 ELSE Len(lines)
    IN  arp_scan_loop(Slice(lines, start_idx, end_idx), <<>>, now)

(***************************************************************************)
(* scan_with_arp_command: the parser of the ARP cache listing.             *)
(***************************************************************************)
\* macOS: (\S+)?\s*\((\d+\.\d+\.\d+\.\d+)\)\s+at\s+([0-9a-fA-F:]+)
MacosMatchAt(line, i) ==
    /\ i + 2 <= Len(line)
    /\ HasParenIp(line[i])
    /\ line[i + 1] = W_at
    /\ HexColonPrefix(line[i + 2]) # <<>>

arp_macos_line(line, now) ==
    IF \A i \in 1..Len(line) : ~MacosMatchAt(line, i) THEN <<>>
    ELSE LET i   == CHOOSE k \in 1..Len(line) :
                        MacosMatchAt(line, k) /\ \A j \in 1..(k - 1) : ~MacosMatchAt(line, j)
             q   == LastParen(line[i])
             g1  == IF q > 1 THEN SubSeq(line[i], 1, q - 1)
                    ELSE IF i > 1 THEN line[i - 1] ELSE <<>>
             ip  == ParenIp(line[i])
             mac == HexColonPrefix(line[i + 2])
         IN  IF ~is_valid_ip(ip) \/ ~is_valid_mac(mac) THEN <<>>
             ELSE <<Device(ip, mac, IF g1 # <<>> THEN g1 ELSE Unknown, now)>>

\* Linux: (\d+\.\d+\.\d+\.\d+)\s+\S+\s+([0-9a-fA-F:]+)
LinuxMatchAt(line, i) ==
    /\ i + 2 <= Len(line)
    /\ HasIpSuffix(line[i])
    /\ HexColonPrefix(line[i + 2]) # <<>>

arp_linux_line(line, dns, now) ==
    IF \A i \in 1..Len(line) : ~LinuxMatchAt(line, i) THEN <<>>
    ELSE LET i   == CHOOSE k \in 1..Len(line) :
                        LinuxMatchAt(line, k) /\ \A j \in 1..(k - 1) : ~LinuxMatchAt(line, j)
             ip  == IpSuffix(line[i])
             mac == HexColonPrefix(line[i + 2])
         IN  IF ~is_valid_ip(ip) \/ ~is_valid_mac(mac) THEN <<>>
             ELSE <<Device(ip, mac, ResolveHostname(dns), now)>>

RECURSIVE arp_command_loop(_, _, _, _, _, _)
arp_command_loop(lines, k, devs, ostype, dns, now) ==
    IF k > Len(lines) THEN devs
    ELSE arp_command_loop(lines, k + 1,
             devs \o (IF ostype = "macos" THEN arp_macos_line(lines[k], now)
                      ELSE arp_linux_line(lines[k], dns[k], now)),
             ostype, dns, now)

arp_command_parse(lines, ostype, dns, now) ==
    arp_command_loop(lines, 1, <<>>, ostype, dns, now)

(***************************************************************************)
(* scan_with_ip_neigh: the parser of the neighbour table.                  *)
(***************************************************************************)
\* (\d+\.\d+\.\d+\.\d+).*?\s+lladdr\s+([0-9a-fA-F:]+)
LladdrAt(line, j) ==
    /\ j + 1 <= Len(line)
    /\ line[j] = W_lladdr
    /\ HexColonPrefix(line[j + 1]) # <<>>

NeighMatchAt(line, i) ==
    /\ HasIpMatch(line[i])
    /\ \E j \in (i + 1)..Len(line) : LladdrAt(line, j)

ip_neigh_line(line, dns, now) ==
    IF \A i \in 1..Len(line) : ~NeighMatchAt(line, i) THEN <<>>
    ELSE IF \A t \in 1..Len(line) : ~Contains(line[t], W_REACHABLE) THEN <<>>
    ELSE LET i   == CHOOSE k \in 1..Len(line) :
                        NeighMatchAt(line, k) /\ \A j \in 1..(k - 1) : ~NeighMatchAt(line, j)
             j   == CHOOSE k \in (i + 1)..Len(line) :
                        LladdrAt(line, k) /\ \A m \in (i + 1)..(k - 1) : ~LladdrAt(line, m)
             ip  == FirstIpMatch(line[i])
             mac == HexColonPrefix(line[j + 1])
         IN  IF ~is_valid_ip(ip) \/ ~is_valid_mac(mac) THEN <<>>
             ELSE <<Device(ip, mac, ResolveHostname(dns), now)>>

RECURSIVE ip_neigh_loop(_, _, _, _, _)
ip_neigh_loop(lines, k, devs, dns, now) ==
    IF k > Len(lines) THEN devs
    ELSE ip_neigh_loop(lines, k + 1, devs \o ip_neigh_line(lines[k], dns[k], now),
                       dns, now)

ip_neigh_parse(lines, dns, now) == ip_neigh_loop(lines, 1, <<>>, dns, now)

(***************************************************************************)
(* scan_network: the normalize and dedup pass.                             *)
(***************************************************************************)
\* the mutant of IsDuplicate: the seen-set is never consulted
IsDuplicateNever(norm_mac, seen_macs) == FALSE

\* norm_mac in seen_macs
IsDuplicate(norm_mac, seen_macs) == norm_mac \in seen_macs

RECURSIVE normalize_loop(_, _, _, _)
\* the loop `for device in devices`, from record k on
normalize_loop(devs, k, normalized_devices, seen_macs) ==
    IF k > Len(devs) THEN normalized_devices
    ELSE LET device   == devs[k]
             norm_mac == normalize_mac(device.mac)
         IN  IF ~is_valid_ip(device.ip) \/ ~is_valid_mac(device.mac)
             THEN normalize_loop(devs, k + 1, normalized_devices, seen_macs)
             ELSE IF IsDuplicate(norm_mac, seen_macs)
             THEN normalize_loop(devs, k + 1, normalized_devices, seen_macs)
             ELSE normalize_loop(devs, k + 1,
                      Append(normalized_devices, [device EXCEPT !.mac = norm_mac]),
                      seen_macs \cup {norm_mac})

normalize_devices(devs) == normalize_loop(devs, 1, <<>>, {})

(***************************************************************************)
(* Inputs: addresses, as the tools print them.                             *)
(***************************************************************************)
Mac6(a, b, c, d, e, f, sep) == JoinWith(<<a, b, c, d, e, f>>, <<sep>>)

\* AA:BB:CC:DD:EE:FF
MAC_UP == Mac6(<<"A", "A">>, <<"B", "B">>, <<"C", "C">>, <<"D", "D">>, <<"E", "E">>,
               <<"F", "F">>, ":")

\* aa:bb:cc:dd:ee:ff
MAC_LO == Lower(MAC_UP)

\* 11-22-33-44-55-66
MAC_DASH == Mac6(<<"1", "1">>, <<"2", "2">>, <<"3", "3">>, <<"4", "4">>, <<"5", "5">>,
                 <<"6", "6">>, "-")

\* 0:1c:b3:9:85:15, as macOS prints 00:1c:b3:09:85:15
MAC_SHORT == Mac6(<<"0">>, <<"1", "c">>, <<"b", "3">>, <<"9">>, <<"8", "5">>,
                  <<"1", "5">>, ":")

\* zz:zz:zz:zz:zz:zz
MAC_BAD == Mac6(<<"z", "z">>, <<"z", "z">>, <<"z", "z">>, <<"z", "z">>, <<"z", "z">>,
                <<"z", "z">>, ":")

IP1 == <<"1", "0", ".", "0", ".", "0", ".", "1">>

IP2 == <<"1", "0", ".", "0", ".", "0", ".", "2">>

IP_BAD == <<"2", "5", "6", ".", "1", ".", "1", ".", "1">>

(***************************************************************************)
(* normalize_mac applied to MAC-shaped strings.                            *)
(***************************************************************************)
GroupShapes == {<<"a">>, <<"A", "B">>, <<"0", "c">>, <<"z", "1">>}

Separators == {<<":">>, <<"-">>, <<>>}

\* k groups, the first of shape g1 and the others of shape g, joined by sep
MacShaped(k, g1, g, sep) ==
    JoinWith([i \in 1..k |-> IF i = 1 THEN g1 ELSE g], sep)

MacInputs ==
    {MacShaped(k, g1, g, sep) :
        k \in 0..MaxGroups, g1 \in GroupShapes, g \in GroupShapes, sep \in Separators}

PureIdle == pin = <<>> /\ pout = <<>> /\ pstage = "unused"

SysIdle ==
    /\ pc = "unused" /\ os = "linux" /\ root = FALSE /\ cycle = 0
    /\ devices = <<>> /\ attempted = <<>> /\ host = 0 /\ active_ips = <<>>
    /\ result = <<>> /\ calls = {} /\ posted = <<>> /\ outcome = "none"

InitMac ==
    /\ SysIdle
    /\ pin \in MacInputs
    /\ pout = <<>>
    /\ pstage = "input"

\* a call of normalize_mac(pin): it has no raise and no path that returns
\* anything but the joined chunks
ApplyNormalizeMac ==
    /\ pstage = "input"
    /\ pout' = [raised |-> FALSE, value |-> normalize_mac(pin)]
    /\ pstage' = "normalize_mac"
    /\ UNCHANGED <<pin, sysvars>>

NextMac == ApplyNormalizeMac

SpecMac == InitMac /\ [][NextMac]_vars

(***************************************************************************)
(* The normalize and dedup pass applied to raw device lists, twice.        *)
(***************************************************************************)
\* records as the strategies build them; every strategy but the ping sweep
\* validates ip and mac before it appends
RawPool ==
    {Device(IP1, MAC_UP, W_host, 0), Device(IP2, MAC_LO, Unknown, 0),
     Device(IP2, MAC_DASH, Unknown, 0), Device(IP1, MAC_SHORT, W_host, 0),
     Device(IP2, MAC_BAD, Unknown, 0), Device(IP_BAD, MAC_LO, Unknown, 0)}

RECURSIVE SeqsUpTo(_, _)
\* the sequences over S of length at most n
SeqsUpTo(S, n) ==
    IF n = 0 THEN {<<>>}
    ELSE LET shorter == SeqsUpTo(S, n - 1)
         IN  shorter \cup {Append(q, x) : q \in {r \in shorter : Len(r) = n - 1}, x \in S}

InitNorm ==
    /\ SysIdle
    /\ pin \in SeqsUpTo(RawPool, MaxRaw)
    /\ pout = <<>>
    /\ pstage = "input"

ApplyNormalize ==
    /\ pstage = "input"
    /\ pout' = <<normalize_devices(pin)>>
    /\ pstage' = "normalized"
    /\ UNCHANGED <<pin, sysvars>>

ApplyNormalizeAgain ==
    /\ pstage = "normalized"
    /\ pout' = Append(pout, normalize_devices(pout[1]))
    /\ pstage' = "normalized_twice"
    /\ UNCHANGED <<pin, sysvars>>

NextNorm == ApplyNormalize \/ ApplyNormalizeAgain

SpecNorm == InitNorm /\ [][NextNorm]_vars

(***************************************************************************)
(* Inputs: lines of tool output, one constructor per tool.                 *)
(***************************************************************************)
\* the (ip, mac) pairs the tools report
Entries ==
    {<<IP1, MAC_UP>>, <<IP2, MAC_LO>>, <<IP2, MAC_SHORT>>, <<IP1, MAC_DASH>>,
     <<IP1, MAC_BAD>>, <<IP_BAD, MAC_LO>>}

\* a line that is no device line of any tool
Garbage == <<<<"#", "#">>>>

\* arp-scan:  ip  mac  vendor
ArpScanLine(e) == <<e[1], e[2], W_host>>

\* arp -n (Linux):  ip  hwtype  mac  flags  iface
ArpLinuxLine(e) == <<e[1], W_ether, e[2], <<"C">>, W_eth0>>

\* arp -a (macOS):  ? (ip) at mac on iface
ArpMacosLine(e) == <<<<"?">>, <<"(">> \o e[1] \o <<")">>, W_at, e[2], W_on, W_eth0>>

\* ip neigh show:  ip dev iface lladdr mac STATE
IpNeighLine(e, state) == <<e[1], W_dev, W_eth0, W_lladdr, e[2], state>>

PoolArpScan == {ArpScanLine(e) : e \in Entries} \cup {Garbage, <<>>}

\* arp and ip neigh print colons only
ColonEntries == Entries \ {<<IP1, MAC_DASH>>}

PoolArpLinux == {ArpLinuxLine(e) : e \in ColonEntries} \cup {Garbage}

PoolArpMacos == {ArpMacosLine(e) : e \in ColonEntries} \cup {Garbage}

PoolIpNeigh ==
    {IpNeighLine(e, W_REACHABLE) : e \in ColonEntries}
        \cup {IpNeighLine(<<IP2, MAC_LO>>, W_STALE), Garbage}

\* the two header lines and the footer of an arp-scan table (a blank line,
\* two summary lines, and the empty string after the final newline)
ArpScanHeader ==
    <<<<<<"I", "n", "t", "e", "r", "f", "a", "c", "e", ":">>, W_eth0>>,
      <<<<"S", "t", "a", "r", "t", "i", "n", "g">>>>>>

ArpScanFooter ==
    <<<<>>,
      <<<<"2">>, <<"p", "a", "c", "k", "e", "t", "s">>>>,
      <<<<"E", "n", "d", "i", "n", "g">>>>,
      <<>>>>

ArpScanTable(body) == ArpScanHeader \o body \o ArpScanFooter

(***************************************************************************)
(* The three parsers applied to tool output.                               *)
(***************************************************************************)
Parsers == {"arp-scan", "arp-linux", "arp-macos", "ip-neigh"}

PoolOf(p) ==
    CASE p = "arp-scan" -> PoolArpScan
      [] p = "arp-linux" -> PoolArpLinux
      [] p = "arp-macos" -> PoolArpMacos
      [] p = "ip-neigh" -> PoolIpNeigh

\* what the resolver does for the address of each line: the same for all
\* lines, or one thing for the odd lines and another for the even ones
DnsOf(n) ==
    {[i \in 1..n |-> IF i % 2 = 1 THEN a ELSE b] : a \in DnsOutcomes, b \in DnsOutcomes}

InitParse ==
    /\ SysIdle
    /\ \E p \in Parsers : \E body \in SeqsUpTo(PoolOf(p), MaxLines) :
           \E dns \in DnsOf(Len(body)) :
               pin = [parser |-> p, body |-> body,
                      dns |-> IF p \in {"arp-scan", "arp-macos"}
                              THEN [i \in 1..Len(body) |-> "name"] ELSE dns]
    /\ pout = <<>>
    /\ pstage = "input"

ParseArpScanTable ==
    /\ pstage = "input"
    /\ pin.parser = "arp-scan"
    /\ pout' = arp_scan_parse(ArpScanTable(pin.body), 0)
    /\ pstage' = "parsed"
    /\ UNCHANGED <<pin, sysvars>>

ParseArpListing ==
    /\ pstage = "input"
    /\ pin.parser \in {"arp-linux", "arp-macos"}
    /\ pout' = arp_command_parse(pin.body,
                   IF pin.parser = "arp-macos" THEN "macos" ELSE "linux", pin.dns, 0)
    /\ pstage' = "parsed"
    /\ UNCHANGED <<pin, sysvars>>

ParseIpNeigh ==
    /\ pstage = "input"
    /\ pin.parser = "ip-neigh"
    /\ pout' = ip_neigh_parse(pin.body, pin.dns, 0)
    /\ pstage' = "parsed"
    /\ UNCHANGED <<pin, sysvars>>

NextParse == ParseArpScanTable \/ ParseArpListing \/ ParseIpNeigh

SpecParse == InitParse /\ [][NextParse]_vars

(***************************************************************************)
(* scan_network: the per-address ARP lookup after the ping sweep.          *)
(***************************************************************************)
\* macOS: re.search(r'at\s+([0-9a-fA-F:]+)', stdout), on the tokens of stdout
LookupMacosAt(toks, i) ==
    /\ i + 1 <= Len(toks)
    /\ Len(toks[i]) >= 2
    /\ Slice(toks[i], Len(toks[i]) - 2, Len(toks[i])) = W_at
    /\ HexColonPrefix(toks[i + 1]) # <<>>

lookup_macos(toks) ==
    IF \A i \in 1..Len(toks) : ~LookupMacosAt(toks, i) THEN <<>>
    ELSE LET i == CHOOSE k \in 1..Len(toks) :
                      LookupMacosAt(toks, k) /\ \A j \in 1..(k - 1) : ~LookupMacosAt(toks, j)
         IN  <<HexColonPrefix(toks[i + 1])>>

\* Linux: re.search(r'([0-9a-fA-F:]+)[^\n]+', stdout), on the text of stdout
lookup_linux(toks) ==
    LET text  == JoinWith(toks, <<" ">>)
        isHC(c) == IsHex(c) \/ c = ":"
    IN  IF \A p \in 1..Len(text) : ~isHC(text[p]) THEN <<>>
        ELSE LET p   == CHOOSE q \in 1..Len(text) :
                            isHC(text[q]) /\ \A r \in 1..(q - 1) : ~isHC(text[r])
                 run == HexColonPrefix(SubSeq(text, p, Len(text)))
             IN  IF p + Len(run) - 1 < Len(text) THEN <<run>>
                 ELSE IF Len(run) >= 2 THEN <<SubSeq(run, 1, Len(run) - 1)>>
                 ELSE <<>>

\* the MAC the lookup extracts from stdout: <<mac>>, or <<>> when no match
lookup_mac(toks, ostype) ==
    IF ostype = "macos" THEN lookup_macos(toks) ELSE lookup_linux(toks)

\* what `arp -n ip` / `arp -a ip` prints for one address
LookupPool ==
    {ArpMacosLine(<<IP1, MAC_SHORT>>), ArpMacosLine(<<IP1, MAC_LO>>),
     <<MAC_UP, W_ether, W_eth0>>, Garbage}

RECURSIVE ToStr(_)
\* str(n) for n >= 0
ToStr(n) ==
    IF n < 10 THEN <<<<"0", "1", "2", "3", "4", "5", "6", "7", "8", "9">>[n + 1]>>
    ELSE ToStr(n \div 10) \o ToStr(n % 10)

\* the address get_interface_ip() reports
InterfaceIp == <<"1", "0", ".", "0", ".", "0", ".", "7">>

\* '.'.join(ip.split('.')[:3])
network_prefix(ip) == JoinWith(Slice(SplitOn(ip, "."), 0, 3), <<".">>)

(***************************************************************************)
(* The program: main(), scan_network() and send_to_api().                  *)
(***************************************************************************)
\* what the tools report while the program runs: two spellings of one
\* address, an address with one-digit groups, and a damaged one
SysEntries == {<<IP1, MAC_UP>>, <<IP2, MAC_LO>>, <<IP2, MAC_SHORT>>, <<IP1, MAC_BAD>>}

\* the stdout of arp-scan, without its header and footer
StdoutArpScan ==
    SeqsUpTo({ArpScanLine(e) : e \in SysEntries} \cup {Garbage}, MaxLines)

\* the stdout of arp -a / arp -n
StdoutArp(ostype) ==
    SeqsUpTo({IF ostype = "macos" THEN ArpMacosLine(e) ELSE ArpLinuxLine(e) :
                  e \in SysEntries} \cup {Garbage}, MaxLines)

\* the stdout of ip neigh show
StdoutIpNeigh ==
    SeqsUpTo({IpNeighLine(e, W_REACHABLE) : e \in SysEntries}
                 \cup {IpNeighLine(<<IP2, MAC_LO>>, W_STALE)}, MaxLines)

\* the resolver during one call of a strategy
DnsDuring(n) == {[i \in 1..n |-> a] : a \in DnsOutcomes}

\* one external invocation; bounded: subprocess.run was given timeout=
Call(tool, bounded) == [tool |-> tool, bounded |-> bounded]

Strategies == <<"arp-scan", "arp", "ip-neigh", "ping-sweep">>

\* the mutant of NotDevices: the result so far is not looked at
NotDevicesAlways(devs) == TRUE

\* `not devices`, the guard of every strategy after the first
NotDevices(devs) == devs = <<>>

\* a strategy was not called
Skipped(newcalls, nextpc) ==
    /\ calls' = calls \cup newcalls
    /\ pc' = nextpc
    /\ UNCHANGED <<devices, attempted>>

\* a strategy was called and returned devs
StrategyReturns(name, devs, newcalls, nextpc) ==
    /\ devices' = devs
    /\ attempted' = Append(attempted, [name |-> name, nonempty |-> devs # <<>>])
    /\ calls' = calls \cup newcalls
    /\ pc' = nextpc

\* a strategy was called and waits for a process that never exits
StrategyBlocks(name, newcalls) ==
    /\ attempted' = Append(attempted, [name |-> name, nonempty |-> FALSE])
    /\ calls' = calls \cup newcalls
    /\ pc' = "blocked"
    /\ UNCHANGED devices

\* is_tool_available(name) did not return: `which` could not be spawned
\* (only CalledProcessError is caught), or `which` never exits
ToolCheckFails ==
    /\ calls' = calls \cup {Call("which", FALSE)}
    /\ UNCHANGED <<devices, attempted>>
    /\ \/ pc' = "scan_raised"
       \/ pc' = "blocked"

Init ==
    /\ pc = "main_start"
    /\ os \in {"linux", "macos"}
    /\ root \in BOOLEAN
    /\ cycle = 1
    /\ devices = <<>> /\ attempted = <<>> /\ host = 0 /\ active_ips = <<>>
    /\ result = <<>> /\ calls = {} /\ posted = <<>> /\ outcome = "none"
    /\ PureIdle

\* main() before the loop: is_tool_available is called outside any try, so
\* the program dies there when `which` cannot be spawned; otherwise the loop
\* is entered and calls scan_network()
Startup ==
    /\ pc = "main_start"
    /\ \/ pc' = "crash"
       \/ pc' = "try_arp_scan"
    /\ UNCHANGED <<os, root, cycle, devices, attempted, host, active_ips, result,
                   calls, posted, outcome, purevars>>

\* the memory of a call of scan_network() once it has returned
NoLocals ==
    /\ devices' = <<>> /\ attempted' = <<>> /\ host' = 0 /\ active_ips' = <<>>
    /\ calls' = {}

\* the memory of the process once it has exited
Exited ==
    /\ NoLocals
    /\ result' = <<>> /\ posted' = <<>> /\ outcome' = "none"

\* if is_tool_available('arp-scan') and is_root(): scan_with_arp_scan()
TryArpScan ==
    /\ pc = "try_arp_scan"
    /\ UNCHANGED <<os, root, cycle, host, active_ips, result, posted, outcome, purevars>>
    /\ LET which == {Call("which", FALSE)}
           iface == which \cup {Call("get_default_interface", FALSE)}
           run   == iface \cup {Call("arp-scan", FALSE)}
       IN  \/ ToolCheckFails
           \/ Skipped(which, "try_arp")
           \/ /\ root
              /\ \/ StrategyReturns("arp-scan", <<>>, iface, "try_arp")
                 \/ StrategyBlocks("arp-scan", iface)
                 \/ StrategyReturns("arp-scan", <<>>, run, "try_arp")
                 \/ StrategyBlocks("arp-scan", run)
                 \/ \E body \in StdoutArpScan :
                        StrategyReturns("arp-scan",
                            arp_scan_parse(ArpScanTable(body), cycle), run, "try_arp")

\* if not devices and is_tool_available('arp'): scan_with_arp_command()
TryArp ==
    /\ pc = "try_arp"
    /\ UNCHANGED <<os, root, cycle, host, active_ips, result, posted, outcome, purevars>>
    /\ LET which == {Call("which", FALSE)}
           run   == which \cup {Call("arp", FALSE)}
       IN  \/ ~NotDevices(devices) /\ Skipped({}, "try_ip_neigh")
           \/ /\ NotDevices(devices)
              /\ \/ ToolCheckFails
                 \/ Skipped(which, "try_ip_neigh")
                 \/ StrategyReturns("arp", <<>>, run, "try_ip_neigh")
                 \/ StrategyBlocks("arp", run)
                 \/ \E body \in StdoutArp(os) :
                        \E dns \in DnsDuring(Len(body)) :
                            StrategyReturns("arp",
                                arp_command_parse(body, os, dns, cycle), run,
                                "try_ip_neigh")

\* if not devices and get_os_type() == 'linux' and is_tool_available('ip'):
\*     scan_with_ip_neigh()
TryIpNeigh ==
    /\ pc = "try_ip_neigh"
    /\ UNCHANGED <<os, root, cycle, host, active_ips, result, posted, outcome, purevars>>
    /\ LET which == {Call("which", FALSE)}
           run   == which \cup {Call("ip-neigh", FALSE)}
       IN  \/ ~NotDevices(devices) /\ Skipped({}, "try_ping")
           \/ NotDevices(devices) /\ os # "linux" /\ Skipped({}, "try_ping")
           \/ /\ NotDevices(devices)
              /\ os = "linux"
              /\ \/ ToolCheckFails
                 \/ Skipped(which, "try_ping")
                 \/ StrategyReturns("ip-neigh", <<>>, run, "try_ping")
                 \/ StrategyBlocks("ip-neigh", run)
                 \/ \E body \in StdoutIpNeigh :
                        \E dns \in DnsDuring(Len(body)) :
                            StrategyReturns("ip-neigh",
                                ip_neigh_parse(body, dns, cycle), run, "try_ping")

\* if not devices: the interface and its address are resolved for the sweep
PingSweepBegin ==
    /\ pc = "try_ping"
    /\ UNCHANGED <<os, root, cycle, result, posted, outcome, purevars>>
    /\ LET iface == {Call("get_default_interface", FALSE)}
           addr  == iface \cup {Call("get_interface_ip", FALSE)}
       IN  \/ /\ ~NotDevices(devices)
              /\ Skipped({}, "normalize")
              /\ UNCHANGED <<host, active_ips>>
           \/ /\ NotDevices(devices)
              /\ UNCHANGED <<host, active_ips>>
              /\ \/ StrategyReturns("ping-sweep", <<>>, iface, "normalize")
                 \/ StrategyBlocks("ping-sweep", iface)
                 \/ StrategyReturns("ping-sweep", <<>>, addr, "normalize")
                 \/ StrategyBlocks("ping-sweep", addr)
           \/ /\ NotDevices(devices)
              /\ StrategyReturns("ping-sweep", <<>>, addr, "ping_sweep")
              /\ host' = 1
              /\ active_ips' = <<>>

PingOutcomes == {"exit_0", "exit_nonzero", "timeout", "spawn_fail"}

\* one iteration of ping_sweep's loop: subprocess.run(cmd, ..., timeout=1)
PingHost ==
    /\ pc = "ping_sweep"
    /\ host <= LastHost
    /\ \E o \in PingOutcomes :
           LET ip == network_prefix(InterfaceIp) \o <<".">> \o ToStr(host)
           IN  /\ active_ips' = IF o = "exit_0" THEN Append(active_ips, ip)
                                ELSE active_ips
               /\ calls' = calls \cup {Call("ping", TRUE)}
               /\ host' = host + 1
               /\ pc' = IF host < LastHost THEN "ping_sweep"
                        ELSE IF active_ips' = <<>> THEN "normalize"
                        ELSE "mac_lookup"
    /\ UNCHANGED <<os, root, cycle, devices, attempted, result, posted, outcome,
                   purevars>>

\* one iteration of `for active_ip in active_ips` (the list is consumed
\* from its head): subprocess.run(cmd, capture_output=True, text=True)
MacLookup ==
    /\ pc = "mac_lookup"
    /\ active_ips # <<>>
    /\ LET active_ip == Head(active_ips)
       IN  \/ /\ UNCHANGED devices
              /\ pc' = IF Tail(active_ips) = <<>> THEN "normalize" ELSE "mac_lookup"
           \/ /\ UNCHANGED devices
              /\ pc' = "blocked"
           \/ \E out \in LookupPool : \E dns \in DnsOutcomes :
                  LET m == lookup_mac(out, os)
                  IN  /\ devices' =
                             IF m = <<>> THEN devices
                             ELSE Append(devices,
                                      Device(active_ip, m[1], ResolveHostname(dns), cycle))
                      /\ pc' = IF Tail(active_ips) = <<>> THEN "normalize"
                               ELSE "mac_lookup"
    /\ active_ips' = Tail(active_ips)
    /\ calls' = calls \cup {Call("arp-lookup", FALSE)}
    /\ UNCHANGED <<os, root, cycle, attempted, host, result, posted, outcome, purevars>>

\* the normalize and dedup pass, and `return normalized_devices`
Normalize ==
    /\ pc = "normalize"
    /\ result' = normalize_devices(devices)
    /\ pc' = "returned"
    /\ UNCHANGED <<os, root, cycle, devices, attempted, host, active_ips, calls,
                   posted, outcome, purevars>>

\* requests.post: a status, an exception, or no answer at all
DeliveryOutcomes ==
    {"status_200", "status_other", "connection_error", "timeout", "other_error",
     "no_response"}

\* the mutant of send_to_api_next: a refused connection is raised to main()
send_to_api_reraises(o) ==
    IF o = "no_response" THEN "blocked"
    ELSE IF o = "connection_error" THEN "send_raised"
    ELSE "sleep"

\* where main() is after send_to_api: every status and every exception of
\* requests.post is logged and the function returns; a request that is
\* never answered does not return (no timeout= is given)
send_to_api_next(o) == IF o = "no_response" THEN "blocked" ELSE "sleep"

\* send_to_api(devs)
send_to_api(devs) ==
    IF devs = <<>>
    THEN /\ pc' = "sleep"
         /\ UNCHANGED <<posted, outcome>>
    ELSE \E o \in DeliveryOutcomes :
             /\ posted' = Append(posted, [cycle |-> cycle, payload |-> devs])
             /\ outcome' = o
             /\ pc' = send_to_api_next(o)

\* main(): devices = scan_network(), then if devices: send_to_api(devices)
\* else: a warning is logged
Deliver ==
    /\ pc = "returned"
    /\ \/ result # <<>> /\ send_to_api(result)
       \/ result = <<>> /\ pc' = "sleep" /\ UNCHANGED <<posted, outcome>>
    /\ NoLocals
    /\ UNCHANGED <<os, root, cycle, result, purevars>>

\* time.sleep(CONFIG['scan_interval']), and the next iteration of
\* `while True` calls scan_network()
Sleep ==
    /\ pc = "sleep"
    /\ cycle < MaxCycles
    /\ cycle' = cycle + 1
    /\ pc' = "try_arp_scan"
    /\ result' = <<>> /\ posted' = <<>> /\ outcome' = "none"
    /\ UNCHANGED <<os, root, devices, attempted, host, active_ips, calls, purevars>>

InLoop ==
    {"try_arp_scan", "try_arp", "try_ip_neigh", "try_ping", "ping_sweep",
     "mac_lookup", "normalize", "returned", "sleep", "blocked"}

\* except KeyboardInterrupt: sys.exit(0)
Interrupt ==
    /\ pc \in InLoop
    /\ pc' = "exit0"
    /\ Exited
    /\ UNCHANGED <<os, root, cycle, purevars>>

\* an exception left scan_network() or send_to_api():
\* except Exception: sys.exit(1)
MainExcept ==
    /\ pc \in {"scan_raised", "send_raised"}
    /\ pc' = "exit1"
    /\ Exited
    /\ UNCHANGED <<os, root, cycle, purevars>>

Next ==
    \/ Startup \/ TryArpScan \/ TryArp \/ TryIpNeigh
    \/ PingSweepBegin \/ PingHost \/ MacLookup \/ Normalize \/ Deliver
    \/ Sleep \/ Interrupt \/ MainExcept

Spec == Init /\ [][Next]_vars

(***************************************************************************)
(* scan_with_arp_scan() on its own, called directly and from               *)
(* scan_network().                                                         *)
(***************************************************************************)
\* how the interface is obtained: passed by the caller, or found / not found
\* by get_default_interface()
Interfaces == {"given", "default_found", "default_none"}

\* what subprocess.run(['arp-scan', ...]) does: it raises because the
\* executable cannot be started, the process never exits, it exits with a
\* status other than 0 and 1, or it exits with 0 or 1 and a table on stdout
RunOutcomes == {"spawn_fail", "hang", "bad_status", "ok"}

\* scan_with_arp_scan(interface): the only test before the process is
\* started is is_root(); the availability of the tool is not looked at
scan_with_arp_scan(isroot, interface, run, body, now) ==
    IF ~isroot
    THEN [status |-> "returned", devices |-> <<>>, calls |-> {}]
    ELSE IF interface = "default_none"
    THEN [status |-> "returned", devices |-> <<>>,
          calls |-> {Call("get_default_interface", FALSE)}]
    ELSE LET before == IF interface = "given" THEN {}
                       ELSE {Call("get_default_interface", FALSE)}
             invoked == before \cup {Call("arp-scan", FALSE)}
         IN  CASE run = "hang" ->
                    [status |-> "blocked", devices |-> <<>>, calls |-> invoked]
               [] run = "ok" ->
                    [status |-> "returned",
                     devices |-> arp_scan_parse(ArpScanTable(body), now),
                     calls |-> invoked]
               [] OTHER ->
                    [status |-> "returned", devices |-> <<>>, calls |-> invoked]

\* scan_network(): if is_tool_available('arp-scan') and is_root():
\*                     devices = scan_with_arp_scan()
arp_scan_branch(available, isroot, interface, run, body, now) ==
    IF available /\ isroot
    THEN LET r == scan_with_arp_scan(isroot, interface, run, body, now)
         IN  [r EXCEPT !.calls = @ \cup {Call("which", FALSE)}]
    ELSE [status |-> "skipped", devices |-> <<>>, calls |-> {Call("which", FALSE)}]

\* the privilege flag, the availability flag (what is_tool_available
\* answers), the interface and the behaviour of the tool; a tool that is not
\* available cannot be started
InitArpScan ==
    /\ SysIdle
    /\ \E isroot \in BOOLEAN : \E available \in BOOLEAN :
           \E interface \in Interfaces :
               \E run \in (IF available THEN RunOutcomes ELSE {"spawn_fail"}) :
                   \E body \in (IF run = "ok" THEN StdoutArpScan ELSE {<<>>}) :
                       pin = [root |-> isroot, available |-> available,
                              interface |-> interface, run |-> run, body |-> body]
    /\ pout = <<>>
    /\ pstage = "input"

\* scan_with_arp_scan(interface) or scan_with_arp_scan() called directly
CallDirect ==
    /\ pstage = "input"
    /\ pout' = scan_with_arp_scan(pin.root, pin.interface, pin.run, pin.body, 0)
    /\ pstage' = "called_directly"
    /\ UNCHANGED <<pin, sysvars>>

\* the first strategy of scan_network(), which passes no interface
CallFromScanNetwork ==
    /\ pstage = "input"
    /\ pin.interface # "given"
    /\ pout' = arp_scan_branch(pin.available, pin.root, pin.interface, pin.run,
                               pin.body, 0)
    /\ pstage' = "called_from_scan_network"
    /\ UNCHANGED <<pin, sysvars>>

NextArpScan == CallDirect \/ CallFromScanNetwork

SpecArpScan == InitArpScan /\ [][NextArpScan]_vars


(***************************************************************************)
(* The claims.                                                             *)
(***************************************************************************)

\* C1: scan_network() never lets an exception escape: whatever the tools
\* do, including `which` failing to spawn, the call returns a list.
C1_NoExceptionEscapesScan == pc # "scan_raised"

StrategyRank(name) == CHOOSE i \in 1..Len(Strategies) : Strategies[i] = name

\* C2: within one call of scan_network() the strategies are attempted in
\* the order arp-scan, arp, ip neigh, ping sweep, each at most once, and
\* only after every strategy attempted before it returned an empty list.
C2_StrategyOrder ==
    /\ \A i \in 1..Len(attempted) :
           \E r \in 1..Len(Strategies) : Strategies[r] = attempted[i].name
    /\ \A i \in 1..Len(attempted) : \A j \in 1..Len(attempted) :
           i < j => StrategyRank(attempted[i].name) < StrategyRank(attempted[j].name)
    /\ \A i \in 1..Len(attempted) : i < Len(attempted) => ~attempted[i].nonempty
    /\ devices # <<>> /\ pc \in {"try_arp", "try_ip_neigh", "try_ping"}
           => attempted # <<>> /\ attempted[Len(attempted)].nonempty

\* arp-scan and arp came back empty, ip neigh found devices, and the call
\* returned without a ping sweep
C2_Witness ==
    /\ pc = "returned"
    /\ Len(attempted) = 3
    /\ attempted[3].name = "ip-neigh"
    /\ attempted[3].nonempty

ValidRecord(d) == is_valid_ip(d.ip) /\ is_valid_mac(d.mac)

\* the positions of the raw records that pass validation and whose
\* normalized MAC no earlier such record has
FirstSeen(devs) ==
    {k \in 1..Len(devs) :
        /\ ValidRecord(devs[k])
        /\ \A j \in 1..(k - 1) :
               ValidRecord(devs[j])
                   => normalize_mac(devs[j].mac) # normalize_mac(devs[k].mac)}

RECURSIVE PickFrom(_, _, _)
\* the records of devs at the positions K, from position k on, in order
PickFrom(devs, K, k) ==
    IF k > Len(devs) THEN <<>>
    ELSE (IF k \in K THEN <<devs[k]>> ELSE <<>>) \o PickFrom(devs, K, k + 1)

\* C3: in the list scan_network() returns no two devices have the same MAC;
\* of the raw records that pass validation and share a normalized MAC the
\* first in raw order is the one kept, and the kept records stay in raw
\* order.
C3_FirstSeenWins ==
    pc = "returned" =>
        LET kept == PickFrom(devices, FirstSeen(devices), 1)
        IN  /\ \A i \in 1..Len(result) : \A j \in 1..Len(result) :
                   i # j => result[i].mac # result[j].mac
            /\ Len(result) = Len(kept)
            /\ \A i \in 1..Len(result) :
                   result[i] = [kept[i] EXCEPT !.mac = normalize_mac(kept[i].mac)]

\* raw [10.0.0.1/AA:BB:CC:DD:EE:FF, 10.0.0.2/aa:bb:cc:dd:ee:ff] was returned
\* as the 10.0.0.1 record alone
C3_Witness ==
    /\ pc = "returned"
    /\ Len(devices) = 2
    /\ devices[1].ip = IP1 /\ devices[1].mac = MAC_UP
    /\ devices[2].ip = IP2 /\ devices[2].mac = MAC_LO
    /\ Len(result) = 1
    /\ result[1].ip = IP1 /\ result[1].mac = MAC_LO

\* canonical form: six groups of two lowercase hex digits joined by colons
IsCanonicalMac(m) ==
    /\ Len(m) = 17
    /\ \A i \in 1..17 :
           IF i % 3 = 0 THEN m[i] = ":"
           ELSE IsHex(m[i]) /\ LowerChar(m[i]) = m[i]

\* C4: every device in the list scan_network() returns has its mac in
\* canonical form, six groups of two lowercase hex digits joined by colons.
C4_ReturnedMacsCanonical ==
    pc = "returned" => \A i \in 1..Len(result) : IsCanonicalMac(result[i].mac)

\* C5: the normalize and dedup pass applied to its own output returns that
\* output unchanged, for raw lists of records that passed the strategies'
\* validation.
C5_NormalizeIdempotent ==
    pstage = "normalized_twice" /\ (\A k \in 1..Len(pin) : ValidRecord(pin[k]))
        => pout[2] = pout[1]

\* the probes the scan cycle makes
ProbeTools == {"arp-scan", "arp", "ip-neigh", "ping", "arp-lookup"}

\* C6: every external invocation of a scan cycle (arp-scan, the arp listing,
\* ip neigh, each ping, each per-address ARP lookup) is bounded by an
\* explicit timeout.
C6_EveryProbeBounded == \A c \in calls : c.tool \in ProbeTools => c.bounded

\* C7: whatever the outcome of a delivery, once send_to_api returns the loop
\* sleeps and starts the next scan cycle; a cycle makes at most one POST and
\* its body is the list scanned in that same cycle.
C7_DeliveryNeverChangesTheLoop ==
    [][/\ pc = "returned" /\ pc' # "exit0" /\ outcome' # "no_response"
           => pc' = "sleep"
       /\ pc = "sleep" /\ pc' # "exit0"
           => pc' = "try_arp_scan" /\ cycle' = cycle + 1 /\ posted' = <<>>
       /\ posted' # posted /\ posted' # <<>>
           => /\ posted = <<>>
              /\ posted' = <<[cycle |-> cycle, payload |-> result]>>
              /\ \A i \in 1..Len(result) : result[i].last_seen = cycle]_vars

\* a delivery was refused, send_to_api returned and the loop is about to
\* sleep before the next cycle
C7_Witness ==
    /\ pc = "sleep"
    /\ outcome = "connection_error"
    /\ Len(posted) = 1
    /\ cycle < MaxCycles

\* C8: the periodic loop of main() stops only on an operator interrupt;
\* no error of a cycle ends it.
C8_LoopStopsOnlyOnInterrupt == pc # "exit1"

\* C9: normalize_mac(s) fails when fewer than 12 hex digits remain after
\* stripping, and otherwise returns the first 12, lowercased, as six pairs
\* joined by colons.
C9_NormalizeMacContract ==
    pstage = "normalize_mac" =>
        LET hex == SelectSeq(pin, IsHex)
        IN  IF Len(hex) < 12 THEN pout.raised
            ELSE /\ ~pout.raised
                 /\ pout.value = [i \in 1..17 |->
                        IF i % 3 = 0 THEN ":" ELSE LowerChar(hex[i - (i \div 3)])]

\* the entries a tool's well-formed device lines are printed from
EntriesOf(p) == IF p = "arp-scan" THEN Entries ELSE ColonEntries

\* the line a tool prints for a device
DeviceLine(p, e) ==
    CASE p = "arp-scan" -> ArpScanLine(e)
      [] p = "arp-linux" -> ArpLinuxLine(e)
      [] p = "arp-macos" -> ArpMacosLine(e)
      [] p = "ip-neigh" -> IpNeighLine(e, W_REACHABLE)

\* a well-formed device line: printed for a device whose addresses are valid
WellFormed(p, line) ==
    \E e \in EntriesOf(p) :
        line = DeviceLine(p, e) /\ is_valid_ip(e[1]) /\ is_valid_mac(e[2])

RECURSIVE WellFormedEntries(_, _)
\* the (ip, mac) of the well-formed device lines of body, in order
WellFormedEntries(p, body) ==
    IF body = <<>> THEN <<>>
    ELSE (IF WellFormed(p, Head(body))
          THEN <<CHOOSE e \in EntriesOf(p) : Head(body) = DeviceLine(p, e)>>
          ELSE <<>>) \o WellFormedEntries(p, Tail(body))

\* C10: in each parser a line that does not match the grammar, or whose IP
\* or MAC fails validation, removes only itself: the records returned are
\* those of the well-formed device lines, in order.
C10_MalformedLineRemovesOnlyItself ==
    pstage = "parsed" =>
        LET want == WellFormedEntries(pin.parser, pin.body)
        IN  /\ Len(pout) = Len(want)
            /\ \A i \in 1..Len(pout) :
                   pout[i].ip = want[i][1] /\ pout[i].mac = want[i][2]

\* an arp-scan table with a damaged line between two well-formed ones gave
\* the two records
C10_Witness ==
    /\ pstage = "parsed"
    /\ pin.parser = "arp-scan"
    /\ Len(pin.body) = 3
    /\ WellFormed("arp-scan", pin.body[1])
    /\ ~WellFormed("arp-scan", pin.body[2])
    /\ pin.body[2] # <<>>
    /\ WellFormed("arp-scan", pin.body[3])
    /\ Len(pout) = 2

\* C11: when the privilege flag or the tool-availability flag is false, the
\* arp-scan strategy yields the empty list at once: arp-scan is not invoked
\* and nothing else is run on the way, both when scan_with_arp_scan() is
\* called directly and when it is reached through scan_network() (where the
\* availability test itself is the only call made).
C11_NoSpawnWithoutPreconditions ==
    pstage \in {"called_directly", "called_from_scan_network"}
        /\ (~pin.root \/ ~pin.available) =>
            /\ pout.status \in {"returned", "skipped"}
            /\ pout.devices = <<>>
            /\ Call("arp-scan", FALSE) \notin pout.calls
            /\ pout.calls \subseteq {Call("which", FALSE)}

\* the part of C11 that the code keeps: reached through scan_network(), or
\* without the privilege flag, arp-scan is never invoked
C11_GuardedPaths ==
    (pstage = "called_from_scan_network" \/ (pstage = "called_directly" /\ ~pin.root))
        /\ (~pin.root \/ ~pin.available) =>
            /\ pout.devices = <<>>
            /\ Call("arp-scan", FALSE) \notin pout.calls


====
